---- MODULE Spec2Model ----
(***************************************************************************)
(* A model of the Adafruit MAX31856 thermocouple driver                    *)
(* (Adafruit_MAX31856.cpp / Adafruit_MAX31856.h) together with the part of *)
(* the chip it talks to: the configuration registers 0x00-0x09, which the  *)
(* chip keeps as written, the ONE_SHOT bit of CR0, which the chip clears   *)
(* by itself when a conversion completes, and the result registers         *)
(* 0x0A-0x0F, whose contents the chip decides.                             *)
(*                                                                         *)
(* Every public method is a sequence of SPI transactions.  A method that   *)
(* reads a register and later acts on what it read is modelled one         *)
(* transaction per step, so that the chip may act in between; a method     *)
(* that only writes, or makes a single read, is one step.  While a method  *)
(* runs (pc # "idle") no other method can start: the driver is             *)
(* single-threaded.                                                        *)
(*                                                                         *)
(* Floating-point results are exact in the code (a 16-bit integer divided  *)
(* by 256.0, a 19-bit integer times 2^-7) and are kept as a numerator and  *)
(* a denominator.  The millisecond clock is an unsigned 32-bit counter,    *)
(* kept as two 16-bit halves.                                              *)
(***************************************************************************)
EXTENDS Integers, Sequences, FiniteSets, TLC

(***************************************************************************)
(* Register addresses and flags (Adafruit_MAX31856.h).                     *)
(***************************************************************************)
MAX31856_CR0_REG == 0
MAX31856_CR0_AUTOCONVERT == 128
MAX31856_CR0_1SHOT == 64
MAX31856_CR0_OCFAULT0 == 16
MAX31856_CR1_REG == 1
MAX31856_MASK_REG == 2
MAX31856_CJHF_REG == 3
MAX31856_CJLF_REG == 4
MAX31856_LTHFTH_REG == 5
MAX31856_LTHFTL_REG == 6
MAX31856_LTLFTH_REG == 7
MAX31856_LTLFTL_REG == 8
MAX31856_CJTO_REG == 9
MAX31856_CJTH_REG == 10
MAX31856_LTCBH_REG == 12
MAX31856_SR_REG == 15

MAX31856_FAULT_CJRANGE == 128
MAX31856_FAULT_TCRANGE == 64
MAX31856_FAULT_CJHIGH == 32
MAX31856_FAULT_CJLOW == 16
MAX31856_FAULT_TCHIGH == 8
MAX31856_FAULT_TCLOW == 4
MAX31856_FAULT_OVUV == 2
MAX31856_FAULT_OPEN == 1

\* max31856_noise_filter_t
MAX31856_NOISE_FILTER_50HZ == 0
MAX31856_NOISE_FILTER_60HZ == 1

\* max31856_thermocoupletype_t
MAX31856_TCTYPE_B == 0
MAX31856_TCTYPE_E == 1
MAX31856_TCTYPE_J == 2
MAX31856_TCTYPE_K == 3
MAX31856_TCTYPE_N == 4
MAX31856_TCTYPE_R == 5
MAX31856_TCTYPE_S == 6
MAX31856_TCTYPE_T == 7
MAX31856_VMODE_G8 == 8
MAX31856_VMODE_G32 == 12

\* max31856_conversion_mode_t
MAX31856_ONESHOT == 0
MAX31856_ONESHOT_NOWAIT == 1
MAX31856_CONTINUOUS == 2

ThermocoupleTypes ==
  { MAX31856_TCTYPE_B, MAX31856_TCTYPE_E, MAX31856_TCTYPE_J, MAX31856_TCTYPE_K,
    MAX31856_TCTYPE_N, MAX31856_TCTYPE_R, MAX31856_TCTYPE_S, MAX31856_TCTYPE_T,
    MAX31856_VMODE_G8, MAX31856_VMODE_G32 }

ConversionModes ==
  { MAX31856_ONESHOT, MAX31856_ONESHOT_NOWAIT, MAX31856_CONTINUOUS }

NoiseFilters == { MAX31856_NOISE_FILTER_50HZ, MAX31856_NOISE_FILTER_60HZ }

\* The timeout budget and the poll interval of the blocking read, in ms.
TimeoutMs == 250
PollDelayMs == 10

(***************************************************************************)
(* Bytes and bitwise operators on naturals.                                *)
(***************************************************************************)
Byte == 0..255

RECURSIVE BitAnd(_, _)
BitAnd(a, b) ==
  IF a = 0 \/ b = 0 THEN 0
  ELSE (a % 2) * (b % 2) + 2 * BitAnd(a \div 2, b \div 2)

RECURSIVE BitOr(_, _)
BitOr(a, b) ==
  IF a = 0 THEN b
  ELSE IF b = 0 THEN a
  ELSE (IF (a % 2) + (b % 2) > 0 THEN 1 ELSE 0) + 2 * BitOr(a \div 2, b \div 2)

\* ~m on a uint8_t operand after the implicit narrowing of the assignment.
BitNot8(m) == 255 - m

\* The narrowing conversion to uint8_t.
ToUint8(v) == v % 256

(***************************************************************************)
(* Unsigned 32-bit values as <<high half, low half>>.                      *)
(***************************************************************************)
U32(hi, lo) == <<hi, lo>>

U32Add(a, n) ==
  LET lo == a[2] + n
      hi == a[1] + (lo \div 65536)
  IN  U32(hi % 65536, lo % 65536)

\* (a - b) mod 2^32
U32Sub(a, b) ==
  LET lo == a[2] - b[2]
      borrow == IF lo < 0 THEN 1 ELSE 0
      hi == a[1] - b[1] - borrow
  IN  U32((hi + 65536) % 65536, (lo + 65536) % 65536)

\* a > n for a small natural n
U32Gt(a, n) == a[1] > 0 \/ a[2] > n

U32Or(a, b) == U32(BitOr(a[1], b[1]), BitOr(a[2], b[2]))

U32And(a, b) == U32(BitAnd(a[1], b[1]), BitAnd(a[2], b[2]))

\* The value of a 32-bit pattern read as int32_t (two's complement).
Int32Of(a) ==
  IF a[1] >= 32768 THEN (a[1] - 65536) * 65536 + a[2] ELSE a[1] * 65536 + a[2]

(***************************************************************************)
(* The register access layer: what each call puts on the bus.  A           *)
(* transaction is one chip-select frame: the bytes sent and the bytes      *)
(* received.                                                               *)
(***************************************************************************)
\* readRegisterN(addr, buffer, n): bytes are what the chip answered.
readRegisterN(addr, bytes) ==
  [call |-> "write_then_read", tx |-> << BitAnd(addr, 127) >>, rx |-> bytes]

\* writeRegister8(addr, data)
\* A write that sends the register address as it is, without the write flag.
writeRegister8_NoFlag(addr, data) ==
  [call |-> "write", tx |-> << addr, ToUint8(data) >>, rx |-> << >>]

writeRegister8(addr, data) ==
  [call |-> "write", tx |-> << BitOr(addr, 128), ToUint8(data) >>, rx |-> << >>]

\* readRegister16: the two bytes received, first byte most significant.
readRegister16(bytes) == BitOr(bytes[1] * 256, bytes[2])

\* readRegister24: the three bytes received, first byte most significant.
readRegister24(bytes) == BitOr(BitOr(bytes[1] * 256, bytes[2]) * 256, bytes[3])

(***************************************************************************)
(* The chip's side of a transaction.  Bit 7 of the first byte selects a    *)
(* write; the configuration registers 0x00-0x09 keep what is written, and  *)
(* a write to any other address changes nothing.                           *)
(***************************************************************************)
ConfigRegs == 0..9

IsWriteFrame(x) == x.tx[1] >= 128

ChipAfter(r, x) ==
  IF IsWriteFrame(x) /\ (x.tx[1] - 128) \in ConfigRegs
  THEN [r EXCEPT ![x.tx[1] - 128] = x.tx[2]]
  ELSE r

RECURSIVE ChipAfterAll(_, _)
ChipAfterAll(r, xs) ==
  IF xs = << >> THEN r ELSE ChipAfterAll(ChipAfter(r, Head(xs)), Tail(xs))

\* The byte the chip answers for a one-byte read of a configuration register.
ChipByte(r, addr) == r[BitAnd(addr, 127)]

(***************************************************************************)
(* The values the handlers compute.                                        *)
(***************************************************************************)
\* A setConversionMode that turns on automatic conversion and leaves the
\* one-shot bit as it was read.
ConversionModeCR0_KeepsOneShot(mode, t) ==
  IF mode = MAX31856_CONTINUOUS
  THEN BitOr(t, MAX31856_CR0_AUTOCONVERT)
  ELSE BitOr(BitAnd(t, BitNot8(MAX31856_CR0_AUTOCONVERT)), MAX31856_CR0_1SHOT)

\* A setConversionMode that assigns the mode flags where it should OR them
\* in, losing the other bits of the value read.
ConversionModeCR0_FlagsOnly(mode, t) ==
  IF mode = MAX31856_CONTINUOUS
  THEN MAX31856_CR0_AUTOCONVERT
  ELSE MAX31856_CR0_1SHOT

\* setConversionMode: the CR0 value written back for the value t read.
ConversionModeCR0(mode, t) ==
  IF mode = MAX31856_CONTINUOUS
  THEN BitAnd(BitOr(t, MAX31856_CR0_AUTOCONVERT), BitNot8(MAX31856_CR0_1SHOT))
  ELSE BitOr(BitAnd(t, BitNot8(MAX31856_CR0_AUTOCONVERT)), MAX31856_CR0_1SHOT)

\* A setThermocoupleType that forgets to mask off the bottom 4 bits.
ThermocoupleTypeCR1_NoMask(type, t) == BitOr(t, BitAnd(ToUint8(type), 15))

\* A setThermocoupleType that ORs the whole type value in, without "& 0x0F".
ThermocoupleTypeCR1_WholeByte(type, t) == BitOr(BitAnd(t, 240), ToUint8(type))

\* setThermocoupleType: the CR1 value written back for the value t read.
ThermocoupleTypeCR1(type, t) == BitOr(BitAnd(t, 240), BitAnd(ToUint8(type), 15))

\* getThermocoupleType: the type decoded from the CR1 value read.
ThermocoupleTypeOf(t) == BitAnd(t, 15)

\* A setNoiseFilter that assigns 0x01 for 50 Hz where it should OR it in.
NoiseFilterCR0_Assign(noiseFilter, t) ==
  IF noiseFilter = MAX31856_NOISE_FILTER_50HZ THEN 1 ELSE BitAnd(t, 254)

\* A setNoiseFilter whose 60 Hz mask is 0xef where it should be 0xfe.
NoiseFilterCR0_WrongMask(noiseFilter, t) ==
  IF noiseFilter = MAX31856_NOISE_FILTER_50HZ THEN BitOr(t, 1) ELSE BitAnd(t, 239)

\* setNoiseFilter: the CR0 value written back for the value t read.
NoiseFilterCR0(noiseFilter, t) ==
  IF noiseFilter = MAX31856_NOISE_FILTER_50HZ THEN BitOr(t, 1) ELSE BitAnd(t, 254)

\* triggerOneShot: the CR0 value written back for the value t read.
TriggerCR0(t) ==
  BitOr(BitAnd(t, BitNot8(MAX31856_CR0_AUTOCONVERT)), MAX31856_CR0_1SHOT)

\* A conversionComplete without the negation of the masked value.
OneShotCleared_Inverted(t) == BitAnd(t, MAX31856_CR0_1SHOT) # 0

\* conversionComplete in a one-shot mode, for the CR0 value read.
OneShotCleared(t) == BitAnd(t, MAX31856_CR0_1SHOT) = 0

\* readCJTemperature: readRegister16(...) / 256.0, as numerator and denominator.
CJTemperature(bytes) == [kind |-> "float", num |-> readRegister16(bytes), den |-> 256]

\* The 24-bit value taken as it is, without the sign fix.
Temp24Fixed_NoSign(raw) == raw

\* readThermocoupleTemperature, lines 285-293: sign fix, >> 5, * 0.0078125.
Temp24Fixed(raw) ==
  IF BitAnd(raw, 8388608) # 0
  THEN Int32Of(U32Or(U32(raw \div 65536, raw % 65536), U32(65280, 0)))
  ELSE raw

\* The decode with a shift by 4 bits in place of 5.
TCTemperature_Shift4(bytes) ==
  [kind |-> "float", num |-> Temp24Fixed(readRegister24(bytes)) \div 16, den |-> 128]

TCTemperature(bytes) ==
  [kind |-> "float", num |-> Temp24Fixed(readRegister24(bytes)) \div 32, den |-> 128]

\* A timeout test with the operands of the subtraction exchanged.
TimedOut_Swapped(millis, st) == U32Gt(U32Sub(st, millis), TimeoutMs)

\* A timeout test against a deadline: millis() > start + 250, the sum taken
\* in uint32_t.
TimedOut_Deadline(millis, st) ==
  LET d == U32Add(st, TimeoutMs)
  IN  millis[1] > d[1] \/ (millis[1] = d[1] /\ millis[2] > d[2])

\* A timeout test with a budget of 25 ms.
TimedOut_Short(millis, st) == U32Gt(U32Sub(millis, st), 25)

\* A timeout test with twice the budget.
TimedOut_Late(millis, st) == U32Gt(U32Sub(millis, st), 2 * TimeoutMs)

\* The timeout test of the poll loop: millis() - start > 250.
TimedOut(millis, st) == U32Gt(U32Sub(millis, st), TimeoutMs)

\* A conversion that rounds toward minus infinity.
Threshold16_Floor(q) == (q[1] * 16) \div q[2]

\* The conversion of a float threshold x = q[1]/q[2] (q[2] > 0) by
\* "x *= 16; int16_t v = x": truncation toward zero.
Threshold16(q) ==
  LET n == q[1] * 16
  IN  IF n >= 0 THEN n \div q[2] ELSE -((-n) \div q[2])

\* The high and low bytes written for an int16_t threshold v: v >> 8 and v,
\* each narrowed to uint8_t.
HighByte(v) == (v \div 256) % 256
LowByte(v) == v % 256

(***************************************************************************)
(* State.                                                                  *)
(***************************************************************************)
VARIABLES
  regs,            \* the chip's configuration registers 0x00-0x09
  conversionMode,  \* Adafruit_MAX31856::conversionMode
  initialized,     \* Adafruit_MAX31856::initialized
  begun,           \* history: some call of begin() has succeeded
  pc,              \* the driver's position: "idle" between public calls
  stack,           \* where nested calls return to
  op,              \* the public method running, or the last one that ran
  arg,             \* the argument of setThermocoupleType, setConversionMode
                   \* or setNoiseFilter
  thresholds,      \* the arguments of a threshold setter: low, high, each a
                   \* fraction << numerator, denominator >> written flat
  t,               \* the local t of the read-modify-write methods
  start,           \* the local start of readThermocoupleTemperature
  now,             \* millis(): the unsigned 32-bit millisecond clock
  elapsed,         \* milliseconds since the running method was called
  log,             \* the bus transactions of the running (or last) method
  ret              \* what the last method returned

vars == << regs, conversionMode, initialized, begun, pc, stack, op, arg,
           thresholds, t, start, now, elapsed, log, ret >>

NoRet == [kind |-> "none", num |-> 0, den |-> 1]
Void == [kind |-> "void", num |-> 0, den |-> 1]
BoolRet(b) == [kind |-> "bool", num |-> IF b THEN 1 ELSE 0, den |-> 1]
IntRet(v) == [kind |-> "int", num |-> v, den |-> 1]
NaN == [kind |-> "nan", num |-> 0, den |-> 1]

(***************************************************************************)
(* The inputs of the protocol specification.                               *)
(***************************************************************************)
\* CR0 and CR1 as the chip may hold them when the handle is constructed:
\* the power-on values, and values left by an earlier configuration.
InitCR0 == { 0, 237 }
InitCR1 == { 167 }

\* The values of millis() when readThermocoupleTemperature is called: one
\* far from the wrap of the counter, one 130 ms before it.
StartTimes == { U32(0, 0), U32(65535, 65406) }

TypeInputs == { MAX31856_TCTYPE_K, MAX31856_VMODE_G32 }

\* What the chip may hold in its result registers.
RawTC == { << 25, 0, 0 >>, << 231, 0, 0 >>, << 255, 255, 255 >> }
RawCJ == { << 25, 0 >>, << 255, 0 >> }
RawSR == { 0, 129 }

\* Cold-junction thresholds (low, high) and thermocouple thresholds
\* (low, high), the latter as fractions << numerator, denominator >>.
CJThresholdInputs == { << -64, 127 >> }
TempThresholdInputs == { << << -2048, 1 >>, << 32767, 16 >> >> }

\* The configuration registers at power-on, but for CR0 and CR1.
RegsWith(cr0, cr1) ==
  [a \in ConfigRegs |->
     CASE a = MAX31856_CR0_REG -> cr0
       [] a = MAX31856_CR1_REG -> cr1
       [] a = MAX31856_MASK_REG -> 255
       [] a = MAX31856_CJHF_REG -> 127
       [] a = MAX31856_CJLF_REG -> 192
       [] a = MAX31856_LTHFTH_REG -> 127
       [] a = MAX31856_LTHFTL_REG -> 255
       [] a = MAX31856_LTLFTH_REG -> 128
       [] OTHER -> 0]

\* The clock is followed from the call of a method that reads it to its
\* return; while any other method runs it is not read, and is kept here.
Parked == U32(0, 0)

\* After construction: the handle holds initialized = false and an
\* indeterminate conversionMode (the constructors do not set it); the chip
\* holds cr0 and cr1 in CR0 and CR1.
Constructed(cr0, cr1) ==
  /\ regs = RegsWith(cr0, cr1)
  /\ conversionMode \in ConversionModes
  /\ initialized = FALSE
  /\ begun = FALSE
  /\ pc = "idle"
  /\ stack = << >>
  /\ op = "none"
  /\ arg = 0
  /\ thresholds = << >>
  /\ t = 0
  /\ start = U32(0, 0)
  /\ now = Parked
  /\ elapsed = 0
  /\ log = << >>
  /\ ret = NoRet

Init == \E cr0 \in InitCR0, cr1 \in InitCR1 : Constructed(cr0, cr1)

(***************************************************************************)
(* Calling and returning.                                                  *)
(***************************************************************************)
\* A public method is called with the argument a and the thresholds th: the
\* clock reads c.
EnterWith(name, a, th, c) ==
  /\ pc = "idle"
  /\ op' = name
  /\ arg' = a
  /\ thresholds' = th
  /\ t' = 0
  /\ start' = U32(0, 0)
  /\ now' = c
  /\ elapsed' = 0

\* A public method other than the threshold setters is called.
Enter(name, a, c) == EnterWith(name, a, << >>, c)

\* A method returns v: to its caller inside the driver, or to the user.
Return(v) ==
  IF stack = << >>
  THEN pc' = "idle" /\ stack' = stack /\ ret' = v
  ELSE pc' = Head(stack) /\ stack' = Tail(stack) /\ ret' = ret

\* One bus transaction x happens.
Bus(x) ==
  /\ log' = Append(log, x)
  /\ regs' = ChipAfter(regs, x)

\* The transactions xs are the first of a method, made in its first step.
BusFirst(xs) ==
  /\ log' = xs
  /\ regs' = ChipAfterAll(regs, xs)

handle == << conversionMode, initialized, begun >>
frame == << op, arg, thresholds, start, now, elapsed >>

\* readRegister8(addr) against the chip holding r: the transaction, with the
\* chip's answer in rx[1].
readRegister8(r, addr) == readRegisterN(addr, << ChipByte(r, addr) >>)

(***************************************************************************)
(* begin()                                                                 *)
(***************************************************************************)
\* The three writes with CR0 configured before the fault mask is cleared.
BeginWrites_CR0First ==
  << writeRegister8(MAX31856_CR0_REG, MAX31856_CR0_OCFAULT0),
     writeRegister8(MAX31856_MASK_REG, 0),
     writeRegister8(MAX31856_CJTO_REG, 0) >>

\* Lines 85-91: the three writes that open a successful begin().
BeginWrites ==
  << writeRegister8(MAX31856_MASK_REG, 0),
     writeRegister8(MAX31856_CR0_REG, MAX31856_CR0_OCFAULT0),
     writeRegister8(MAX31856_CJTO_REG, 0) >>

\* The thermocouple type begin() sets.
BeginType == MAX31856_TCTYPE_K

\* The conversion mode begin() sets.
BeginMode == MAX31856_ONESHOT

\* A begin() that reports success whatever spi_dev.begin() returned.
BeginResult_AlwaysTrue(ok) == TRUE

\* What begin() returns when spi_dev.begin() returned ok.
BeginResult(ok) == ok

\* Lines 79-94: spi_dev.begin() returns ok; on failure begin() returns at
\* once, otherwise it makes its three writes and calls setThermocoupleType.
Begin(ok) ==
  /\ Enter("begin", BeginType, Parked)
  /\ initialized' = ok
  /\ conversionMode' = conversionMode
  /\ IF ~ok
     THEN /\ pc' = "idle"
          /\ ret' = BoolRet(BeginResult(ok))
          /\ stack' = << >>
          /\ log' = << >>
          /\ UNCHANGED << regs, begun >>
     ELSE /\ begun' = TRUE
          /\ BusFirst(BeginWrites)
          /\ pc' = "stt_read"
          /\ stack' = << "begin_scm" >>
          /\ ret' = NoRet

\* Line 97: begin() calls setConversionMode(MAX31856_ONESHOT).
BeginSetMode ==
  /\ pc = "begin_scm"
  /\ conversionMode' = BeginMode
  /\ pc' = "scm_read"
  /\ stack' = << "begin_ret" >>
  /\ UNCHANGED << regs, initialized, begun, t, log, ret >>
  /\ UNCHANGED frame

\* Line 99: return true.
BeginReturn ==
  /\ pc = "begin_ret"
  /\ pc' = "idle"
  /\ ret' = BoolRet(BeginResult(initialized))
  /\ UNCHANGED << regs, t, log, stack >>
  /\ UNCHANGED handle
  /\ UNCHANGED frame

(***************************************************************************)
(* setConversionMode(mode) / getConversionMode()                           *)
(***************************************************************************)
SetConversionMode(mode) ==
  /\ Enter("setConversionMode", mode, Parked)
  /\ conversionMode' = mode
  /\ pc' = "scm_read"
  /\ stack' = << >>
  /\ log' = << >>
  /\ ret' = NoRet
  /\ UNCHANGED << regs, initialized, begun >>

\* Lines 110-117: read CR0 and compute the value to write back.
ScmRead ==
  /\ pc = "scm_read"
  /\ LET x == readRegister8(regs, MAX31856_CR0_REG)
     IN  /\ Bus(x)
         /\ t' = ConversionModeCR0(conversionMode, x.rx[1])
  /\ pc' = "scm_write"
  /\ UNCHANGED << stack, ret >>
  /\ UNCHANGED handle
  /\ UNCHANGED frame

\* Line 118.
ScmWrite ==
  /\ pc = "scm_write"
  /\ Bus(writeRegister8(MAX31856_CR0_REG, t))
  /\ Return(Void)
  /\ UNCHANGED t
  /\ UNCHANGED handle
  /\ UNCHANGED frame

\* A getConversionMode that asks the chip: it reads CR0 and answers from the
\* AUTOCONVERT bit.
GetConversionMode_FromChip ==
  /\ Enter("getConversionMode", 0, Parked)
  /\ LET x == readRegister8(regs, MAX31856_CR0_REG)
     IN  /\ BusFirst(<< x >>)
         /\ ret' = IntRet(IF BitAnd(x.rx[1], MAX31856_CR0_AUTOCONVERT) # 0
                          THEN MAX31856_CONTINUOUS ELSE MAX31856_ONESHOT)
  /\ pc' = "idle"
  /\ stack' = << >>
  /\ UNCHANGED handle

\* Lines 127-129.
GetConversionMode ==
  /\ Enter("getConversionMode", 0, Parked)
  /\ pc' = "idle"
  /\ stack' = << >>
  /\ log' = << >>
  /\ ret' = IntRet(conversionMode)
  /\ UNCHANGED regs
  /\ UNCHANGED handle

(***************************************************************************)
(* setThermocoupleType(type) / getThermocoupleType()                       *)
(***************************************************************************)
SetThermocoupleType(type) ==
  /\ Enter("setThermocoupleType", type, Parked)
  /\ pc' = "stt_read"
  /\ stack' = << >>
  /\ log' = << >>
  /\ ret' = NoRet
  /\ UNCHANGED regs
  /\ UNCHANGED handle

\* Lines 138-140.
SttRead ==
  /\ pc = "stt_read"
  /\ LET x == readRegister8(regs, MAX31856_CR1_REG)
     IN  /\ Bus(x)
         /\ t' = ThermocoupleTypeCR1(arg, x.rx[1])
  /\ pc' = "stt_write"
  /\ UNCHANGED << stack, ret >>
  /\ UNCHANGED handle
  /\ UNCHANGED frame

\* Line 141.
SttWrite ==
  /\ pc = "stt_write"
  /\ Bus(writeRegister8(MAX31856_CR1_REG, t))
  /\ Return(Void)
  /\ UNCHANGED t
  /\ UNCHANGED handle
  /\ UNCHANGED frame

GetThermocoupleType ==
  /\ Enter("getThermocoupleType", 0, Parked)
  /\ LET x == readRegister8(regs, MAX31856_CR1_REG)
     IN  /\ BusFirst(<< x >>)
         /\ ret' = IntRet(ThermocoupleTypeOf(x.rx[1]))
  /\ pc' = "idle"
  /\ stack' = << >>
  /\ UNCHANGED handle

(***************************************************************************)
(* readFault()                                                             *)
(***************************************************************************)
\* A readFault that reads the fault mask register, not the fault status.
ReadFault_MaskRegister(b) ==
  /\ Enter("readFault", 0, Parked)
  /\ LET x == readRegisterN(MAX31856_MASK_REG, << b >>)
     IN  /\ BusFirst(<< x >>)
         /\ ret' = IntRet(x.rx[1])
  /\ pc' = "idle"
  /\ stack' = << >>
  /\ UNCHANGED handle

\* b is the fault status the chip holds.
ReadFault(b) ==
  /\ Enter("readFault", 0, Parked)
  /\ LET x == readRegisterN(MAX31856_SR_REG, << b >>)
     IN  /\ BusFirst(<< x >>)
         /\ ret' = IntRet(x.rx[1])
  /\ pc' = "idle"
  /\ stack' = << >>
  /\ UNCHANGED handle

(***************************************************************************)
(* setColdJunctionFaultThreshholds(low, high)                              *)
(***************************************************************************)
\* The two writes with the registers exchanged.
ColdJunctionWrites_Swapped(low, high) ==
  << writeRegister8(MAX31856_CJHF_REG, low),
     writeRegister8(MAX31856_CJLF_REG, high) >>

\* Lines 177-178.
ColdJunctionWrites(low, high) ==
  << writeRegister8(MAX31856_CJLF_REG, low),
     writeRegister8(MAX31856_CJHF_REG, high) >>

SetColdJunctionFaultThreshholds(low, high) ==
  /\ EnterWith("setColdJunctionFaultThreshholds", 0, << low, 1, high, 1 >>, Parked)
  /\ BusFirst(ColdJunctionWrites(low, high))
  /\ pc' = "idle"
  /\ stack' = << >>
  /\ ret' = Void
  /\ UNCHANGED handle

(***************************************************************************)
(* setTempFaultThreshholds(flow, fhigh)                                    *)
(***************************************************************************)
\* The four writes with the high threshold sent to the linearized
\* temperature registers (LTCBH, LTCBM) where LTHFTH, LTHFTL are meant.
TempFaultWrites_ToResult(flow, fhigh) ==
  LET low == Threshold16(flow)
      high == Threshold16(fhigh)
  IN  << writeRegister8(MAX31856_LTCBH_REG, HighByte(high)),
         writeRegister8(MAX31856_LTCBH_REG + 1, LowByte(high)),
         writeRegister8(MAX31856_LTLFTH_REG, HighByte(low)),
         writeRegister8(MAX31856_LTLFTL_REG, LowByte(low)) >>

\* Lines 213-220.
TempFaultWrites(flow, fhigh) ==
  LET low == Threshold16(flow)
      high == Threshold16(fhigh)
  IN  << writeRegister8(MAX31856_LTHFTH_REG, HighByte(high)),
         writeRegister8(MAX31856_LTHFTL_REG, LowByte(high)),
         writeRegister8(MAX31856_LTLFTH_REG, HighByte(low)),
         writeRegister8(MAX31856_LTLFTL_REG, LowByte(low)) >>

SetTempFaultThreshholds(flow, fhigh) ==
  /\ EnterWith("setTempFaultThreshholds", 0, flow \o fhigh, Parked)
  /\ BusFirst(TempFaultWrites(flow, fhigh))
  /\ pc' = "idle"
  /\ stack' = << >>
  /\ ret' = Void
  /\ UNCHANGED handle

(***************************************************************************)
(* setNoiseFilter(noiseFilter)                                             *)
(***************************************************************************)
SetNoiseFilter(noiseFilter) ==
  /\ Enter("setNoiseFilter", noiseFilter, Parked)
  /\ pc' = "snf_read"
  /\ stack' = << >>
  /\ log' = << >>
  /\ ret' = NoRet
  /\ UNCHANGED regs
  /\ UNCHANGED handle

\* Lines 190-195.
SnfRead ==
  /\ pc = "snf_read"
  /\ LET x == readRegister8(regs, MAX31856_CR0_REG)
     IN  /\ Bus(x)
         /\ t' = NoiseFilterCR0(arg, x.rx[1])
  /\ pc' = "snf_write"
  /\ UNCHANGED << stack, ret >>
  /\ UNCHANGED handle
  /\ UNCHANGED frame

\* Line 196.
SnfWrite ==
  /\ pc = "snf_write"
  /\ Bus(writeRegister8(MAX31856_CR0_REG, t))
  /\ Return(Void)
  /\ UNCHANGED t
  /\ UNCHANGED handle
  /\ UNCHANGED frame

(***************************************************************************)
(* triggerOneShot() / conversionComplete()                                 *)
(***************************************************************************)
\* A triggerOneShot without the early return of the continuous mode.
TriggerSkips_Never(mode) == FALSE

\* Line 231: triggerOneShot does nothing in continuous mode.
TriggerSkips(mode) == mode = MAX31856_CONTINUOUS

TriggerOneShot ==
  /\ Enter("triggerOneShot", 0, Parked)
  /\ IF TriggerSkips(conversionMode)
     THEN pc' = "idle" /\ ret' = Void
     ELSE pc' = "tos_read" /\ ret' = NoRet
  /\ stack' = << >>
  /\ log' = << >>
  /\ UNCHANGED regs
  /\ UNCHANGED handle

\* Lines 234-236.
TosRead ==
  /\ pc = "tos_read"
  /\ LET x == readRegister8(regs, MAX31856_CR0_REG)
     IN  /\ Bus(x)
         /\ t' = TriggerCR0(x.rx[1])
  /\ pc' = "tos_write"
  /\ UNCHANGED << stack, ret >>
  /\ UNCHANGED handle
  /\ UNCHANGED frame

\* Line 237.
TosWrite ==
  /\ pc = "tos_write"
  /\ Bus(writeRegister8(MAX31856_CR0_REG, t))
  /\ Return(Void)
  /\ UNCHANGED t
  /\ UNCHANGED handle
  /\ UNCHANGED frame

\* Line 249: conversionComplete answers true in continuous mode without a read.
CompleteWithoutRead(mode) == mode = MAX31856_CONTINUOUS

\* conversionComplete(): the transactions it makes against the chip holding r.
CompleteReads(mode, r) ==
  IF CompleteWithoutRead(mode) THEN << >>
  ELSE << readRegister8(r, MAX31856_CR0_REG) >>

\* conversionComplete(): its result, given the transactions it made.
CompleteResult(xs) == xs = << >> \/ OneShotCleared(xs[1].rx[1])

ConversionComplete ==
  /\ Enter("conversionComplete", 0, Parked)
  /\ LET xs == CompleteReads(conversionMode, regs)
     IN  /\ BusFirst(xs)
         /\ ret' = BoolRet(CompleteResult(xs))
  /\ pc' = "idle"
  /\ stack' = << >>
  /\ UNCHANGED handle

(***************************************************************************)
(* readCJTemperature() / readThermocoupleTemperature()                     *)
(***************************************************************************)
\* bytes are what the chip holds in 0x0A-0x0B.
ReadCJTemperature(bytes) ==
  /\ Enter("readCJTemperature", 0, Parked)
  /\ BusFirst(<< readRegisterN(MAX31856_CJTH_REG, bytes) >>)
  /\ ret' = CJTemperature(bytes)
  /\ pc' = "idle"
  /\ stack' = << >>
  /\ UNCHANGED handle

\* A read that triggers and waits in every mode but the continuous one.
BlockingMode_AllOneShot(mode) == mode # MAX31856_CONTINUOUS

\* Line 274: the read triggers and waits only in this mode.
BlockingMode(mode) == mode = MAX31856_ONESHOT

\* Lines 274-275: in the blocking mode the read first calls triggerOneShot().
ReadThermocoupleTemperature(c) ==
  /\ Enter("readThermocoupleTemperature", 0, c)
  /\ IF BlockingMode(conversionMode)
     THEN IF TriggerSkips(conversionMode)
          THEN pc' = "rtc_start" /\ stack' = << >>
          ELSE pc' = "tos_read" /\ stack' = << "rtc_start" >>
     ELSE pc' = "rtc_read" /\ stack' = << >>
  /\ log' = << >>
  /\ ret' = NoRet
  /\ UNCHANGED regs
  /\ UNCHANGED handle

\* Line 276: start = millis().
RtcStart ==
  /\ pc = "rtc_start"
  /\ start' = now
  /\ pc' = "rtc_poll"
  /\ UNCHANGED << regs, stack, op, arg, thresholds, t, now, elapsed, log, ret >>
  /\ UNCHANGED handle

\* A poll loop that leaves the loop on timeout and goes on to read the
\* temperature registers.
RtcPoll_BreakOnTimeout ==
  /\ pc = "rtc_poll"
  /\ LET xs == CompleteReads(conversionMode, regs)
     IN  /\ log' = log \o xs
         /\ regs' = ChipAfterAll(regs, xs)
         /\ IF CompleteResult(xs) \/ TimedOut(now, start)
            THEN /\ pc' = "rtc_read"
                 /\ UNCHANGED << now, elapsed, ret >>
            ELSE /\ pc' = "rtc_poll"
                 /\ now' = U32Add(now, PollDelayMs)
                 /\ elapsed' = elapsed + PollDelayMs
                 /\ UNCHANGED ret
  /\ UNCHANGED << stack, op, arg, thresholds, t, start >>
  /\ UNCHANGED handle

\* Lines 277-281: one evaluation of the loop condition and, when the
\* conversion is not complete, the timeout test and delay(10).
RtcPoll ==
  /\ pc = "rtc_poll"
  /\ LET xs == CompleteReads(conversionMode, regs)
     IN  /\ log' = log \o xs
         /\ regs' = ChipAfterAll(regs, xs)
         /\ IF CompleteResult(xs)
            THEN /\ pc' = "rtc_read"
                 /\ UNCHANGED << now, elapsed, ret >>
            ELSE IF TimedOut(now, start)
            THEN /\ pc' = "idle"
                 /\ ret' = NaN
                 /\ UNCHANGED << now, elapsed >>
            ELSE /\ pc' = "rtc_poll"
                 /\ now' = U32Add(now, PollDelayMs)
                 /\ elapsed' = elapsed + PollDelayMs
                 /\ UNCHANGED ret
  /\ UNCHANGED << stack, op, arg, thresholds, t, start >>
  /\ UNCHANGED handle

\* Lines 285-293: bytes are what the chip holds in 0x0C-0x0E.
RtcRead(bytes) ==
  /\ pc = "rtc_read"
  /\ Bus(readRegisterN(MAX31856_LTCBH_REG, bytes))
  /\ ret' = TCTemperature(bytes)
  /\ pc' = "idle"
  /\ UNCHANGED << stack, t >>
  /\ UNCHANGED handle
  /\ UNCHANGED frame

(***************************************************************************)
(* The chip.                                                               *)
(***************************************************************************)
\* A conversion completes: the chip clears the ONE_SHOT bit of CR0.
ChipConversionDone ==
  /\ BitAnd(regs[MAX31856_CR0_REG], MAX31856_CR0_1SHOT) # 0
  /\ regs' = [regs EXCEPT ![MAX31856_CR0_REG] =
                BitAnd(@, BitNot8(MAX31856_CR0_1SHOT))]
  /\ UNCHANGED << pc, stack, op, arg, thresholds, t, start, now, elapsed, log, ret >>
  /\ UNCHANGED handle

(***************************************************************************)
(* The protocol specification: any sequence of public calls, each run to   *)
(* its return, with the chip free to complete a conversion at any time.    *)
(***************************************************************************)
Next ==
  \/ \E ok \in BOOLEAN : Begin(ok)
  \/ BeginSetMode
  \/ BeginReturn
  \/ \E mode \in ConversionModes : SetConversionMode(mode)
  \/ ScmRead
  \/ ScmWrite
  \/ GetConversionMode
  \/ \E type \in TypeInputs : SetThermocoupleType(type)
  \/ SttRead
  \/ SttWrite
  \/ GetThermocoupleType
  \/ \E b \in RawSR : ReadFault(b)
  \/ \E th \in CJThresholdInputs :
       SetColdJunctionFaultThreshholds(th[1], th[2])
  \/ \E th \in TempThresholdInputs :
       SetTempFaultThreshholds(th[1], th[2])
  \/ \E f \in NoiseFilters : SetNoiseFilter(f)
  \/ SnfRead
  \/ SnfWrite
  \/ TriggerOneShot
  \/ TosRead
  \/ TosWrite
  \/ ConversionComplete
  \/ \E bytes \in RawCJ : ReadCJTemperature(bytes)
  \/ \E c \in StartTimes : ReadThermocoupleTemperature(c)
  \/ RtcStart
  \/ RtcPoll
  \/ \E bytes \in RawTC : RtcRead(bytes)
  \/ ChipConversionDone

Spec == Init /\ [][Next]_vars

\* The steps of a method that has been called.  The driver is sequential
\* code: a method that is running takes its next step.
Running ==
  \/ BeginSetMode
  \/ BeginReturn
  \/ ScmRead
  \/ ScmWrite
  \/ SttRead
  \/ SttWrite
  \/ SnfRead
  \/ SnfWrite
  \/ TosRead
  \/ TosWrite
  \/ RtcStart
  \/ RtcPoll
  \/ \E bytes \in RawTC : RtcRead(bytes)

FairSpec == Spec /\ WF_vars(Running)

(***************************************************************************)
(* The thermocouple type specification: setThermocoupleType and            *)
(* getThermocoupleType against every value the chip may hold in CR1, with  *)
(* every defined type code and some values outside the enumeration.        *)
(***************************************************************************)
TypeArgs == ThermocoupleTypes \cup { 9, 15, 19, 255 }

InitType == \E cr1 \in Byte : Constructed(0, cr1)

NextType ==
  \/ \E type \in TypeArgs : SetThermocoupleType(type)
  \/ SttRead
  \/ SttWrite
  \/ GetThermocoupleType

SpecType == InitType /\ [][NextType]_vars

(***************************************************************************)
(* The decode specification: the two temperature reads against a wider     *)
(* range of result-register contents, in each conversion mode the handle   *)
(* may hold.                                                               *)
(***************************************************************************)
WideTC ==
  { << h, m, l >> : h \in { 0, 25, 127, 128, 231, 255 },
                    m \in { 0, 255 },
                    l \in { 0, 31, 32, 255 } }

WideCJ == { << h, l >> : h \in { 0, 25, 127, 128, 255 }, l \in { 0, 1, 255 } }

InitDecode == Constructed(0, 3)

NextDecode ==
  \/ \E bytes \in WideCJ : ReadCJTemperature(bytes)
  \/ ReadThermocoupleTemperature(U32(0, 0))
  \/ TosRead
  \/ TosWrite
  \/ RtcStart
  \/ RtcPoll
  \/ \E bytes \in WideTC : RtcRead(bytes)
  \/ ChipConversionDone

SpecDecode == InitDecode /\ [][NextDecode]_vars

(***************************************************************************)
(* The conversion mode specification: setConversionMode and                *)
(* getConversionMode against every value the chip may hold in CR0, the     *)
(* chip free to complete a conversion at any time.                         *)
(***************************************************************************)
InitMode == \E cr0 \in Byte : Constructed(cr0, 3)

NextMode ==
  \/ \E mode \in ConversionModes : SetConversionMode(mode)
  \/ ScmRead
  \/ ScmWrite
  \/ GetConversionMode
  \/ ChipConversionDone

SpecMode == InitMode /\ [][NextMode]_vars

(***************************************************************************)
(* The threshold specification: the two threshold setters with a range of  *)
(* arguments.  A float argument is the fraction << numerator, denominator  *)
(* >> with a power of two as denominator.                                  *)
(***************************************************************************)
CJValues == { -128, -10, -1, 0, 85, 127 }

TempValues ==
  { << 53, 2 >>, << -53, 2 >>, << -3, 128 >>, << 12925, 128 >>,
    << -12925, 128 >>, << -2048, 1 >>, << 32767, 16 >> }

InitThresholds == Constructed(0, 3)

NextThresholds ==
  \/ \E low \in CJValues, high \in CJValues :
       SetColdJunctionFaultThreshholds(low, high)
  \/ \E flow \in TempValues, fhigh \in TempValues :
       SetTempFaultThreshholds(flow, fhigh)

SpecThresholds == InitThresholds /\ [][NextThresholds]_vars

(***************************************************************************)
(* The noise filter specification: setNoiseFilter against every value the  *)
(* chip may hold in CR0, the chip leaving CR0 alone.                       *)
(***************************************************************************)
InitFilter == \E cr0 \in Byte : Constructed(cr0, 3)

NextFilter ==
  \/ \E f \in NoiseFilters : SetNoiseFilter(f)
  \/ SnfRead
  \/ SnfWrite

SpecFilter == InitFilter /\ [][NextFilter]_vars

(***************************************************************************)
(* The fault specification: readFault against every fault status byte.     *)
(***************************************************************************)
FaultFlags ==
  { MAX31856_FAULT_CJRANGE, MAX31856_FAULT_TCRANGE, MAX31856_FAULT_CJHIGH,
    MAX31856_FAULT_CJLOW, MAX31856_FAULT_TCHIGH, MAX31856_FAULT_TCLOW,
    MAX31856_FAULT_OVUV, MAX31856_FAULT_OPEN }

InitFault == Constructed(0, 3)

NextFault == \E b \in Byte : ReadFault(b)

SpecFault == InitFault /\ [][NextFault]_vars

(***************************************************************************)
(* The wraparound specification: the blocking read called at values of     *)
(* millis() far from the wrap of the counter, at its maximum, and at       *)
(* distances from the maximum on both sides of the 250 ms budget.          *)
(***************************************************************************)
WrapStarts ==
  { U32(0, 0), U32(0, 65530), U32(32767, 65535), U32(65535, 65274),
    U32(65535, 65284), U32(65535, 65285), U32(65535, 65286),
    U32(65535, 65406), U32(65535, 65535) }

InitWrap == Constructed(0, 3)

NextWrap ==
  \/ \E c \in WrapStarts : ReadThermocoupleTemperature(c)
  \/ TosRead
  \/ TosWrite
  \/ RtcStart
  \/ RtcPoll
  \/ \E bytes \in RawTC : RtcRead(bytes)
  \/ ChipConversionDone

SpecWrap == InitWrap /\ [][NextWrap]_vars

\* A public method has returned.
Returned(name) == pc = "idle" /\ op = name

\* The upper 4 bits of a byte.
UpperNibble(v) == v \div 16

(***************************************************************************)
(* C1.  For every prior value c of CR1 and every defined type code t:      *)
(* when setThermocoupleType(t) has returned, the upper 4 bits of CR1 are   *)
(* those of the value c it read, and a getThermocoupleType() that runs     *)
(* next returns exactly t.                                                 *)
(***************************************************************************)
C1_AfterSet ==
  (Returned("setThermocoupleType") /\ arg \in ThermocoupleTypes) =>
     /\ Len(log) = 2
     /\ UpperNibble(regs[MAX31856_CR1_REG]) = UpperNibble(log[1].rx[1])

C1_SetThenGet ==
  (/\ Returned("setThermocoupleType")
   /\ arg \in ThermocoupleTypes
   /\ op' = "getThermocoupleType") => ret' = IntRet(arg)

C1_TypeRoundTrip == [](C1_AfterSet) /\ [][C1_SetThenGet]_vars

\* setThermocoupleType(G32) has returned; CR1 held 0xA7 before it.
C1_Witness ==
  /\ Returned("setThermocoupleType")
  /\ arg = MAX31856_VMODE_G32
  /\ log[1].rx[1] = 167
  /\ regs[MAX31856_CR1_REG] = 172

(***************************************************************************)
(* Reading the log.                                                        *)
(***************************************************************************)
\* A step of the chip: it changes CR0 and nothing of the driver.
ChipStep == regs' # regs /\ log' = log /\ pc' = pc

\* The transactions a step adds to the log: none when the chip steps, the
\* whole new log when the step is the call of a method, the new tail
\* otherwise.
Added ==
  IF ChipStep THEN << >>
  ELSE IF pc = "idle" THEN log'
  ELSE SubSeq(log', Len(log) + 1, Len(log'))

IsWriteTo(x, addr) == x.call = "write" /\ x.tx[1] = addr + 128
IsReadOf(x, addr, n) ==
  x.call = "write_then_read" /\ x.tx = << addr >> /\ Len(x.rx) = n

HasBit(v, flag) == BitAnd(v, flag) # 0

(***************************************************************************)
(* C2.  Once a call of begin() has acquired the bus, every value the       *)
(* driver writes to CR0 while the stored mode is CONTINUOUS has ONE_SHOT   *)
(* clear, and every value it writes to CR0 while the stored mode is one of *)
(* the one-shot modes has AUTOCONVERT clear.                               *)
(***************************************************************************)
C2_Step ==
  begun' =>
    \A i \in 1..Len(Added) :
      IsWriteTo(Added[i], MAX31856_CR0_REG) =>
        IF conversionMode = MAX31856_CONTINUOUS
        THEN ~HasBit(Added[i].tx[2], MAX31856_CR0_1SHOT)
        ELSE ~HasBit(Added[i].tx[2], MAX31856_CR0_AUTOCONVERT)

C2_ModeFlagsExclusive == [][C2_Step]_vars

\* After begin(), setNoiseFilter(50 Hz) has written CR0 in continuous mode.
C2_Witness ==
  /\ Returned("setNoiseFilter")
  /\ begun
  /\ conversionMode = MAX31856_CONTINUOUS
  /\ Len(log) = 2
  /\ IsWriteTo(log[2], MAX31856_CR0_REG)
  /\ log[2].tx[2] = 145

(***************************************************************************)
(* C3.  readThermocoupleTemperature always returns.  When it has returned  *)
(* in the blocking one-shot mode, its result is not-a-number exactly when  *)
(* its last transaction is a poll of CR0 that found ONE_SHOT still set,    *)
(* and then more than 250 ms have passed since the call; so with a chip    *)
(* that never clears ONE_SHOT, every poll finds it set and the result is   *)
(* not-a-number.  In the other two modes the result is never not-a-number. *)
(***************************************************************************)
IsPoll(x) == IsReadOf(x, MAX31856_CR0_REG, 1)
BusyPoll(x) == IsPoll(x) /\ HasBit(x.rx[1], MAX31856_CR0_1SHOT)

\* The polls of the log: everything after the trigger's read and write.
Polls == { i \in 3..Len(log) : IsPoll(log[i]) }

C3_Returned ==
  Returned("readThermocoupleTemperature") =>
    /\ Len(log) > 0
    /\ ret.kind \in { "nan", "float" }
    /\ ret.kind = "nan" <=>
         /\ conversionMode = MAX31856_ONESHOT
         /\ BusyPoll(log[Len(log)])
    /\ ret.kind = "nan" => elapsed > TimeoutMs
    /\ (conversionMode = MAX31856_ONESHOT /\ \A i \in Polls : BusyPoll(log[i]))
         => ret.kind = "nan"
    /\ conversionMode # MAX31856_ONESHOT => ret.kind = "float"

C3_Returns ==
  (op = "readThermocoupleTemperature" /\ pc # "idle") ~> (pc = "idle")

C3_NaNOnlyOnTimeout == [](C3_Returned) /\ C3_Returns

\* The blocking read has returned not-a-number after 27 polls that all found
\* ONE_SHOT set.
C3_Witness ==
  /\ Returned("readThermocoupleTemperature")
  /\ conversionMode = MAX31856_ONESHOT
  /\ ret = NaN
  /\ Cardinality(Polls) = 27
  /\ \A i \in Polls : BusyPoll(log[i])

(***************************************************************************)
(* C4.  As claimed: in the blocking one-shot mode with a chip that never   *)
(* clears ONE_SHOT, readThermocoupleTemperature returns no later than      *)
(* 250 ms after it was called, and no public method blocks longer than     *)
(* 250 ms (bus transactions take no time).                                 *)
(***************************************************************************)
C4_Within250 ==
  /\ elapsed <= TimeoutMs
  /\ (Returned("readThermocoupleTemperature") /\ ret = NaN) => elapsed <= TimeoutMs

(***************************************************************************)
(* C4, amended.  With bus transactions taking no time and delay(10) taking *)
(* 10 ms, no public method is ever more than 260 ms (the budget plus one   *)
(* poll interval) past its call; the blocking read that meets a chip that  *)
(* never clears ONE_SHOT returns exactly 260 ms after its call; and every  *)
(* other method returns at the time it was called.                         *)
(***************************************************************************)
C4_Within260 ==
  /\ elapsed <= TimeoutMs + PollDelayMs
  /\ (Returned("readThermocoupleTemperature") /\ ret = NaN)
       => elapsed = TimeoutMs + PollDelayMs
  /\ op # "readThermocoupleTemperature" => elapsed = 0

\* The blocking read has given up, 260 ms after its call.
C4_Witness ==
  /\ Returned("readThermocoupleTemperature")
  /\ ret = NaN
  /\ elapsed = 260
  /\ \A i \in Polls : BusyPoll(log[i])

\* The last bus transaction of the method that ran.
LastTx == log[Len(log)]

\* A big-endian byte sequence as an unsigned number.
Raw16(b) == b[1] * 256 + b[2]
Raw24(b) == b[1] * 65536 + b[2] * 256 + b[3]

\* r as two's complement of the given width.
Signed(r, width) == IF r >= 2 ^ (width - 1) THEN r - 2 ^ width ELSE r

\* The returned number equals n / d.
RetIs(n, d) == ret.kind = "float" /\ ret.num * d = n * ret.den

(***************************************************************************)
(* C5.  As claimed: readCJTemperature reads the register pair 0x0A-0x0B    *)
(* big-endian and returns s / 256 for s the signed 16-bit reading of the   *)
(* raw value r: the result times 256 is r when r < 0x8000 and r - 65536    *)
(* when r >= 0x8000.                                                       *)
(***************************************************************************)
C5_SignedColdJunction ==
  Returned("readCJTemperature") =>
    /\ Len(log) = 1
    /\ IsReadOf(LastTx, MAX31856_CJTH_REG, 2)
    /\ RetIs(Signed(Raw16(LastTx.rx), 16), 256)

(***************************************************************************)
(* C6.  When no timeout occurs, readThermocoupleTemperature reads the      *)
(* three registers 0x0C-0x0E last, big-endian, and returns                 *)
(* floor(s / 32) / 128 for s the 24-bit two's complement reading of the    *)
(* raw value; a raw value with bit 23 set gives a negative result.         *)
(***************************************************************************)
C6_ThermocoupleDecode ==
  (Returned("readThermocoupleTemperature") /\ ret # NaN) =>
    /\ IsReadOf(LastTx, MAX31856_LTCBH_REG, 3)
    /\ LET r == Raw24(LastTx.rx)
           s == Signed(r, 24)
       IN  /\ s = IF HasBit(LastTx.rx[1], 128) THEN r - 16777216 ELSE r
           /\ RetIs(s \div 32, 128)
           /\ HasBit(LastTx.rx[1], 128) => ret.num < 0

\* A read of a negative raw value whose low five bits are not zero, so that
\* the shift rounds toward minus infinity.
C6_Witness ==
  /\ Returned("readThermocoupleTemperature")
  /\ LastTx.rx = << 231, 255, 31 >>
  /\ ret = [kind |-> "float", num |-> -49160, den |-> 128]

(***************************************************************************)
(* C7.  As claimed: the bytes {0x19,0x00,0x00} at 0x0C-0x0E decode to      *)
(* 200.0 degrees, and the bytes {0xE7,0x00,0x00} to -200.0 degrees.        *)
(***************************************************************************)
C7_Decodes200 ==
  (Returned("readThermocoupleTemperature") /\ ret # NaN) =>
    /\ LastTx.rx = << 25, 0, 0 >> => RetIs(200, 1)
    /\ LastTx.rx = << 231, 0, 0 >> => RetIs(-200, 1)

(***************************************************************************)
(* C7, amended.  The bytes {0x19,0x00,0x00} at 0x0C-0x0E decode to 400.0   *)
(* degrees ((0x190000 >> 5) = 51200, times 1/128), and the bytes           *)
(* {0xE7,0x00,0x00} to -400.0 degrees.                                     *)
(***************************************************************************)
C7_Decodes400 ==
  (Returned("readThermocoupleTemperature") /\ ret # NaN) =>
    /\ LastTx.rx = << 25, 0, 0 >> => RetIs(400, 1)
    /\ LastTx.rx = << 231, 0, 0 >> => RetIs(-400, 1)

\* The read of {0xE7,0x00,0x00} has returned -51200 / 128.
C7_Witness ==
  /\ Returned("readThermocoupleTemperature")
  /\ IsReadOf(LastTx, MAX31856_LTCBH_REG, 3)
  /\ LastTx.rx = << 231, 0, 0 >>
  /\ ret.num = -51200
  /\ ret.den = 128

\* Transaction i of the log reads a register that an earlier transaction of
\* the log wrote.
ReadsBack(i) ==
  /\ log[i].call = "write_then_read"
  /\ \E j \in 1..(i - 1) : IsWriteTo(log[j], log[i].tx[1])

(***************************************************************************)
(* C8.  A successful begin() makes exactly these transactions, in this     *)
(* order: write 0x00 to MASK; write 0x10 to CR0; write 0x00 to CJTO; read  *)
(* CR1 and write it back with the low nibble 0b0011 (type K); read CR0 and *)
(* write it back with AUTOCONVERT clear and ONE_SHOT set.  Afterwards the  *)
(* stored mode is ONE_SHOT_BLOCKING, the chip's CR1 holds type K, and the  *)
(* last value written to CR0 is 0x50.                                      *)
(***************************************************************************)
C8_BeginSequence ==
  (Returned("begin") /\ ret = BoolRet(TRUE)) =>
    /\ Len(log) = 7
    /\ log[1] = [call |-> "write", tx |-> << 130, 0 >>, rx |-> << >>]
    /\ log[2] = [call |-> "write", tx |-> << 128, 16 >>, rx |-> << >>]
    /\ log[3] = [call |-> "write", tx |-> << 137, 0 >>, rx |-> << >>]
    /\ IsReadOf(log[4], 1, 1)
    /\ log[5] = [call |-> "write",
                 tx |-> << 129, UpperNibble(log[4].rx[1]) * 16 + 3 >>,
                 rx |-> << >>]
    /\ IsReadOf(log[6], 0, 1)
    /\ log[7] = [call |-> "write", tx |-> << 128, 80 >>, rx |-> << >>]
    /\ ~HasBit(log[7].tx[2], 128)
    /\ HasBit(log[7].tx[2], 64)
    /\ ~HasBit(log[7].tx[2], 1)
    /\ conversionMode = MAX31856_ONESHOT
    /\ ThermocoupleTypeOf(ChipByte(regs, MAX31856_CR1_REG)) = MAX31856_TCTYPE_K

\* begin() has succeeded against a chip whose CR1 held 0xA7: it wrote 0xA3.
C8_Witness ==
  /\ Returned("begin")
  /\ ret = BoolRet(TRUE)
  /\ Len(log) = 7
  /\ log[4].rx = << 167 >>
  /\ log[5].tx = << 129, 163 >>
  /\ log[6].rx = << 16 >>

(***************************************************************************)
(* C9.  As claimed: begin() returns failure exactly when the bus transport *)
(* is not acquired, then without any register transaction and with the     *)
(* stored conversion mode unchanged; when the transport is acquired it     *)
(* returns success and has read no register that it wrote before.          *)
(***************************************************************************)
C9_OriginalStep ==
  /\ (Returned("begin") /\ ~initialized)' =>
       /\ ret' = BoolRet(FALSE)
       /\ log' = << >>
       /\ conversionMode' = conversionMode
  /\ (Returned("begin") /\ initialized)' =>
       /\ ret' = BoolRet(TRUE)
       /\ \A i \in 1..Len(log') : ~ReadsBack(i)'

C9_Step ==
  /\ (Returned("begin") /\ ~initialized)' =>
       /\ ret' = BoolRet(FALSE)
       /\ log' = << >>
       /\ conversionMode' = conversionMode
  /\ (Returned("begin") /\ initialized)' =>
       /\ ret' = BoolRet(TRUE)
       /\ \A i \in 1..Len(log') :
            ReadsBack(i)' <=> (i = 6 /\ IsReadOf(log'[i], MAX31856_CR0_REG, 1))

C10_AlwaysTrue == Returned("begin") => ret = BoolRet(TRUE)

\* Bits 5..0 of a byte.
LowSix(v) == v % 64

(***************************************************************************)
(* C11.  setConversionMode(m) stores m in the handle and makes exactly one *)
(* read of CR0 followed by exactly one write of CR0, and no other          *)
(* transaction.  The value written has bits 5..0 of the value read; for    *)
(* m = CONTINUOUS it has AUTOCONVERT set and ONE_SHOT clear, otherwise     *)
(* AUTOCONVERT clear and ONE_SHOT set.                                     *)
(***************************************************************************)
C11_SetConversionMode ==
  Returned("setConversionMode") =>
    /\ conversionMode = arg
    /\ Len(log) = 2
    /\ IsReadOf(log[1], 0, 1)
    /\ IsWriteTo(log[2], 0)
    /\ Len(log[2].tx) = 2
    /\ LowSix(log[2].tx[2]) = LowSix(log[1].rx[1])
    /\ HasBit(log[2].tx[2], 128) <=> (arg = MAX31856_CONTINUOUS)
    /\ HasBit(log[2].tx[2], 64) <=> (arg # MAX31856_CONTINUOUS)

\* setConversionMode(CONTINUOUS) has read 0x6D from CR0 and written 0xAD.
C11_Witness ==
  /\ Returned("setConversionMode")
  /\ arg = MAX31856_CONTINUOUS
  /\ conversionMode = MAX31856_CONTINUOUS
  /\ log[1].rx = << 109 >>
  /\ log[2].tx = << 128, 173 >>

(***************************************************************************)
(* C12.  triggerOneShot makes no bus transaction when the stored mode is   *)
(* CONTINUOUS.  In both one-shot modes it returns without waiting after    *)
(* exactly one read of CR0 followed by one write of CR0 with AUTOCONVERT   *)
(* clear, ONE_SHOT set and bits 5..0 as read.  No step of it changes the   *)
(* stored mode or the initialized flag.                                    *)
(***************************************************************************)
C12_Returned ==
  Returned("triggerOneShot") =>
    /\ elapsed = 0
    /\ ret = Void
    /\ conversionMode = MAX31856_CONTINUOUS => log = << >>
    /\ conversionMode # MAX31856_CONTINUOUS =>
         /\ Len(log) = 2
         /\ IsReadOf(log[1], 0, 1)
         /\ IsWriteTo(log[2], 0)
         /\ Len(log[2].tx) = 2
         /\ LowSix(log[2].tx[2]) = LowSix(log[1].rx[1])
         /\ ~HasBit(log[2].tx[2], 128)
         /\ HasBit(log[2].tx[2], 64)

C12_Step ==
  /\ C12_Returned'
  /\ op' = "triggerOneShot" =>
       /\ conversionMode' = conversionMode
       /\ initialized' = initialized

C12_TriggerOneShot == [][C12_Step]_vars

\* In the non-blocking one-shot mode triggerOneShot has read 0xED from CR0
\* and written 0x6D.
C12_Witness ==
  /\ Returned("triggerOneShot")
  /\ conversionMode = MAX31856_ONESHOT_NOWAIT
  /\ log[1].rx = << 237 >>
  /\ log[2].tx = << 128, 109 >>

(***************************************************************************)
(* C13.  conversionComplete() returns true exactly when the stored mode is *)
(* CONTINUOUS or the ONE_SHOT bit of the CR0 value it reads is 0.  In      *)
(* CONTINUOUS mode it makes no bus transaction; in the one-shot modes it   *)
(* makes exactly one read of CR0 and no write.                             *)
(***************************************************************************)
C13_ConversionComplete ==
  Returned("conversionComplete") =>
    /\ conversionMode = MAX31856_CONTINUOUS =>
         /\ log = << >>
         /\ ret = BoolRet(TRUE)
    /\ conversionMode # MAX31856_CONTINUOUS =>
         /\ Len(log) = 1
         /\ IsReadOf(log[1], 0, 1)
         /\ ret = BoolRet(~HasBit(log[1].rx[1], 64))

\* In the non-blocking one-shot mode conversionComplete has read 0x50, with
\* ONE_SHOT still set, and answered false.
C13_Witness ==
  /\ Returned("conversionComplete")
  /\ conversionMode = MAX31856_ONESHOT_NOWAIT
  /\ begun
  /\ log[1].rx = << 80 >>
  /\ ret = BoolRet(FALSE)

(***************************************************************************)
(* C14.  When the stored mode is ONE_SHOT_NONBLOCKING or CONTINUOUS,       *)
(* readThermocoupleTemperature neither waits nor triggers a conversion:    *)
(* from its call to its return it makes exactly one bus transaction, a     *)
(* 3-byte read starting at 0x0C, with no write, no read of CR0 and no      *)
(* delay.                                                                  *)
(***************************************************************************)
C14_NonBlockingRead ==
  (op = "readThermocoupleTemperature" /\ conversionMode # MAX31856_ONESHOT) =>
    /\ elapsed = 0
    /\ pc \in { "rtc_read", "idle" }
    /\ pc = "rtc_read" => log = << >>
    /\ pc = "idle" =>
         /\ Len(log) = 1
         /\ IsReadOf(log[1], 12, 3)
         /\ ret.kind = "float"

\* In the non-blocking one-shot mode the read has returned while the chip
\* still holds ONE_SHOT set in CR0.
C14_Witness ==
  /\ Returned("readThermocoupleTemperature")
  /\ conversionMode = MAX31856_ONESHOT_NOWAIT
  /\ HasBit(regs[MAX31856_CR0_REG], 64)
  /\ Len(log) = 1
  /\ log[1].tx = << 12 >>
  /\ elapsed = 0

(***************************************************************************)
(* C15.  getConversionMode() makes no bus transaction and returns the      *)
(* stored mode, which is the argument of the last setConversionMode call,  *)
(* or ONE_SHOT_BLOCKING right after a successful begin(); no step other    *)
(* than the call of setConversionMode and the setConversionMode inside a   *)
(* successful begin() changes the stored mode.                             *)
(***************************************************************************)
C15_Step ==
  /\ Returned("getConversionMode")' =>
       /\ log' = << >>
       /\ ret' = IntRet(conversionMode')
  /\ op' = "setConversionMode" => conversionMode' = arg'
  /\ (Returned("begin") /\ ret = BoolRet(TRUE))' =>
       conversionMode' = MAX31856_ONESHOT
  /\ conversionMode' # conversionMode =>
       \/ pc = "idle" /\ op' = "setConversionMode"
       \/ pc = "begin_scm" /\ op = "begin" /\ initialized

C15_StoredMode == [][C15_Step]_vars

\* After a successful begin() and setConversionMode(ONESHOT_NOWAIT), with
\* CR0 holding 0x51 after a setNoiseFilter, getConversionMode answers
\* ONESHOT_NOWAIT and has sent nothing.
C15_Witness ==
  /\ Returned("getConversionMode")
  /\ begun
  /\ regs[MAX31856_CR0_REG] = 81
  /\ ret = IntRet(MAX31856_ONESHOT_NOWAIT)
  /\ log = << >>

\* The arguments low and high of the threshold setter that ran, as fractions.
ArgLow == << thresholds[1], thresholds[2] >>
ArgHigh == << thresholds[3], thresholds[4] >>

\* The 8-bit two's complement encoding of v in -128..127.
Twos8(v) == IF v < 0 THEN v + 256 ELSE v

(***************************************************************************)
(* C16.  setColdJunctionFaultThreshholds(low, high) makes exactly two      *)
(* transactions, both single-byte writes: the 8-bit two's complement       *)
(* encoding of low to register 0x04 and that of high to register 0x03.     *)
(* With low = -10 and high = 85 the registers then hold 0xF6 and 0x55.     *)
(***************************************************************************)
C16_ColdJunctionThresholds ==
  Returned("setColdJunctionFaultThreshholds") =>
    /\ Len(log) = 2
    /\ \A i \in 1..2 : log[i].call = "write" /\ log[i].rx = << >>
    /\ { log[1].tx, log[2].tx } =
         { << 132, Twos8(ArgLow[1]) >>, << 131, Twos8(ArgHigh[1]) >> }
    /\ regs[4] = Twos8(ArgLow[1])
    /\ regs[3] = Twos8(ArgHigh[1])
    /\ (ArgLow[1] = -10 /\ ArgHigh[1] = 85) => regs[4] = 246 /\ regs[3] = 85

\* The call with low = -10 and high = 85 has returned.
C16_Witness ==
  /\ Returned("setColdJunctionFaultThreshholds")
  /\ ArgLow = << -10, 1 >>
  /\ ArgHigh = << 85, 1 >>
  /\ ChipByte(regs, MAX31856_CJLF_REG) = 246
  /\ ChipByte(regs, MAX31856_CJHF_REG) = 85

\* k is the fraction q = << n, d >> (d > 0) times 16, truncated toward zero.
IsTrunc16(k, q) ==
  LET n == 16 * q[1]
      d == q[2]
  IN  IF n >= 0
      THEN k * d <= n /\ n < (k + 1) * d
      ELSE (k - 1) * d < n /\ n <= k * d

\* The 16-bit two's complement value that write i and write j of the log
\* carry as high byte and low byte.
Written16(i, j) == Signed(log[i].tx[2] * 256 + log[j].tx[2], 16)

(***************************************************************************)
(* C17.  setTempFaultThreshholds(low, high) makes exactly four             *)
(* transactions, all single-byte writes, to 0x05, 0x06, 0x07 and 0x08 in   *)
(* this order: the high byte and the low byte of the 16-bit two's          *)
(* complement encoding of trunc(16 * high), then those of                  *)
(* trunc(16 * low), truncation being toward zero.  For 26.5 the bytes are  *)
(* 0x01 and 0xA8.                                                          *)
(***************************************************************************)
C17_TempThresholds ==
  Returned("setTempFaultThreshholds") =>
    /\ Len(log) = 4
    /\ \A i \in 1..4 :
         /\ log[i].call = "write"
         /\ log[i].rx = << >>
         /\ Len(log[i].tx) = 2
         /\ log[i].tx[1] = 132 + i
         /\ log[i].tx[2] \in Byte
    /\ IsTrunc16(Written16(1, 2), ArgHigh)
    /\ IsTrunc16(Written16(3, 4), ArgLow)
    /\ ArgHigh = << 53, 2 >> => log[1].tx[2] = 1 /\ log[2].tx[2] = 168
    /\ ArgLow = << 53, 2 >> => log[3].tx[2] = 1 /\ log[4].tx[2] = 168

\* The call with low = -100.9765625 and high = 26.5 has returned: -1615 is
\* written as 0xF9, 0xB1 and 424 as 0x01, 0xA8.
C17_Witness ==
  /\ Returned("setTempFaultThreshholds")
  /\ ArgLow = << -12925, 128 >>
  /\ ArgHigh = << 53, 2 >>
  /\ log[1].tx = << 133, 1 >>
  /\ log[2].tx = << 134, 168 >>
  /\ log[3].tx = << 135, 249 >>
  /\ log[4].tx = << 136, 177 >>

\* Bits 7..1 of a byte.
UpperSeven(v) == v \div 2

(***************************************************************************)
(* C18.  With CR0 left alone by the chip, setNoiseFilter(f) changes only   *)
(* bit 0 of CR0.  The call and the read leave the registers as they were,  *)
(* the read returns what CR0 holds, and the write leaves CR0 with bit 0    *)
(* equal to 1 for the 50 Hz filter and 0 otherwise and with bits 7..1 as   *)
(* they were.  No step changes another register or the stored mode.        *)
(***************************************************************************)
C18_Step ==
  /\ conversionMode' = conversionMode
  /\ \A a \in ConfigRegs \ { MAX31856_CR0_REG } : regs'[a] = regs[a]
  /\ pc' # "idle" => regs' = regs
  /\ pc' = "snf_write" =>
       /\ Len(log') = 1
       /\ IsReadOf(log'[1], 0, 1)
       /\ log'[1].rx[1] = regs[MAX31856_CR0_REG]
  /\ (pc = "snf_write" /\ pc' = "idle") =>
       /\ Len(log') = 2
       /\ IsWriteTo(log'[2], 0)
       /\ log'[2].tx[2] = regs'[MAX31856_CR0_REG]
       /\ UpperSeven(regs'[MAX31856_CR0_REG]) = UpperSeven(regs[MAX31856_CR0_REG])
       /\ regs'[MAX31856_CR0_REG] % 2 =
            IF arg = MAX31856_NOISE_FILTER_50HZ THEN 1 ELSE 0

C18_OnlyBitZero == [][C18_Step]_vars

\* setNoiseFilter(60 Hz) has found 0xAD in CR0 and left 0xAC.
C18_Witness ==
  /\ Returned("setNoiseFilter")
  /\ arg = MAX31856_NOISE_FILTER_60HZ
  /\ log[1].rx = << 173 >>
  /\ regs[MAX31856_CR0_REG] = 172

(***************************************************************************)
(* C19.  Every bus transaction the driver makes is either a read, one      *)
(* framed transaction that sends exactly one address byte with bit 7 = 0   *)
(* and receives the number of bytes the register read asks for (two at     *)
(* 0x0A, three at 0x0C, one elsewhere), or a write, one framed transaction *)
(* of exactly two bytes, the address with bit 7 = 1 and the value.         *)
(***************************************************************************)
C19_Framing ==
  \A i \in 1..Len(log) :
    \/ /\ log[i].call = "write_then_read"
       /\ Len(log[i].tx) = 1
       /\ log[i].tx[1] \in 0..127
       /\ Len(log[i].rx) = CASE log[i].tx[1] = 10 -> 2
                             [] log[i].tx[1] = 12 -> 3
                             [] OTHER -> 1
    \/ /\ log[i].call = "write"
       /\ Len(log[i].tx) = 2
       /\ log[i].tx[1] \in 128..255
       /\ log[i].tx[2] \in Byte
       /\ log[i].rx = << >>

\* A blocking read has returned a temperature after a trigger (a read and
\* a write of CR0), at least one poll and the 3-byte read.
C19_Witness ==
  /\ Returned("readThermocoupleTemperature")
  /\ ret.kind = "float"
  /\ Len(log) >= 4
  /\ log[1].tx = << 0 >>
  /\ log[2].call = "write"
  /\ log[2].tx[1] = 128
  /\ Len(LastTx.rx) = 3

(***************************************************************************)
(* C20.  readFault() makes a single 1-byte read of register 0x0F and       *)
(* returns the byte read, unmodified.  The fault flag constants are the    *)
(* eight single bits of that byte; for 0x81 exactly the open-circuit flag  *)
(* and the cold-junction-range flag test as set.                           *)
(***************************************************************************)
C20_ReadFault ==
  Returned("readFault") =>
    /\ Len(log) = 1
    /\ IsReadOf(log[1], 15, 1)
    /\ ret = IntRet(log[1].rx[1])
    /\ \A f \in FaultFlags : HasBit(ret.num, f) <=> ((ret.num \div f) % 2 = 1)
    /\ Cardinality(FaultFlags) = 8
    /\ ret.num = 129 =>
         { f \in FaultFlags : HasBit(ret.num, f) } =
           { MAX31856_FAULT_OPEN, MAX31856_FAULT_CJRANGE }

\* readFault has returned 0x81.
C20_Witness ==
  /\ Returned("readFault")
  /\ log[1].rx = << 129 >>
  /\ ret = IntRet(129)
  /\ HasBit(ret.num, MAX31856_FAULT_OPEN)
  /\ HasBit(ret.num, MAX31856_FAULT_CJRANGE)
  /\ ~HasBit(ret.num, MAX31856_FAULT_OVUV)

\* A read of the three linearized temperature registers.
IsTempRead(x) == IsReadOf(x, MAX31856_LTCBH_REG, 3)

(***************************************************************************)
(* C21.  In the blocking one-shot mode the transactions of a               *)
(* readThermocoupleTemperature call are, at every point of the call: first *)
(* the trigger (a read of CR0, then a write of CR0 with ONE_SHOT set),     *)
(* then polls of CR0, then the 3-byte read at 0x0C.  The 3-byte read comes *)
(* last, directly after a poll that read ONE_SHOT clear, and every earlier *)
(* poll read it set; when the call returns NaN there is no such read, and  *)
(* when it returns a temperature there is one, after at least one poll.    *)
(***************************************************************************)
C21_BlockingOrder ==
  (op = "readThermocoupleTemperature" /\ conversionMode = MAX31856_ONESHOT) =>
    /\ \A i \in 1..Len(log) :
         /\ i = 1 => IsReadOf(log[i], 0, 1)
         /\ i = 2 => IsWriteTo(log[i], 0) /\ HasBit(log[i].tx[2], 64)
         /\ i >= 3 => IsPoll(log[i]) \/ IsTempRead(log[i])
         /\ (i >= 3 /\ IsPoll(log[i]) /\ i < Len(log)) =>
              IF BusyPoll(log[i])
              THEN IsPoll(log[i + 1])
              ELSE IsTempRead(log[i + 1])
         /\ IsTempRead(log[i]) =>
              /\ i = Len(log)
              /\ i >= 4
              /\ IsPoll(log[i - 1])
              /\ ~BusyPoll(log[i - 1])
    /\ (pc = "idle" /\ ret = NaN) =>
         /\ Len(log) >= 3
         /\ \A i \in 1..Len(log) : ~IsTempRead(log[i])
    /\ (pc = "idle" /\ ret # NaN) => IsTempRead(log[Len(log)])

\* A blocking read has returned a temperature after the trigger, two polls
\* that read ONE_SHOT set and one that read it clear.
C21_Witness ==
  /\ Returned("readThermocoupleTemperature")
  /\ conversionMode = MAX31856_ONESHOT
  /\ ret.kind = "float"
  /\ Len(log) = 6
  /\ BusyPoll(log[3])
  /\ BusyPoll(log[4])
  /\ IsPoll(log[5])
  /\ ~BusyPoll(log[5])
  /\ IsTempRead(log[6])

\* A blocking read is waiting (the trigger is written) and the chip has
\* cleared ONE_SHOT.
C22_ClearedWhileWaiting ==
  /\ op = "readThermocoupleTemperature"
  /\ pc \in { "rtc_start", "rtc_poll" }
  /\ ~HasBit(regs[MAX31856_CR0_REG], MAX31856_CR0_1SHOT)

\* The blocking read gives up only when more than 250 ms have elapsed and
\* the chip still holds ONE_SHOT set; once the chip has cleared it, the read
\* goes on to the temperature registers.
C22_Step ==
  /\ (pc = "rtc_poll" /\ pc' = "idle") =>
       /\ ret' = NaN
       /\ elapsed > TimeoutMs
       /\ HasBit(regs[MAX31856_CR0_REG], MAX31856_CR0_1SHOT)
  /\ C22_ClearedWhileWaiting =>
       /\ ret' # NaN
       /\ pc' \in { "rtc_start", "rtc_poll", "rtc_read" }
  /\ (pc = "rtc_read" /\ pc' # "rtc_read") =>
       /\ pc' = "idle"
       /\ IsTempRead(log'[Len(log')])
       /\ ret' = TCTemperature(log'[Len(log')].rx)

(***************************************************************************)
(* C22.  In the blocking one-shot mode, if the chip clears ONE_SHOT at any *)
(* time up to 250 ms after the trigger write, the read eventually returns  *)
(* the temperature decoded from registers 0x0C-0x0E and not NaN: the read  *)
(* is still polling at every time up to 250 ms, and a read that is waiting *)
(* with ONE_SHOT cleared leads to the return of the decoded temperature.   *)
(***************************************************************************)
C22_ClearedInTime ==
  /\ [][C22_Step]_vars
  /\ C22_ClearedWhileWaiting ~>
       (Returned("readThermocoupleTemperature") /\ ret.kind = "float")

\* The chip cleared ONE_SHOT at the last moment: the 25 polls up to 240 ms
\* read it set, the 26th poll, at 250 ms, read it clear, and the read has
\* returned a temperature.
C22_Witness ==
  /\ Returned("readThermocoupleTemperature")
  /\ conversionMode = MAX31856_ONESHOT
  /\ elapsed = 250
  /\ Cardinality(Polls) = 26
  /\ ~BusyPoll(log[Len(log) - 1])
  /\ ret.kind = "float"

(***************************************************************************)
(* C23.  Every write transaction of the driver targets a register in       *)
(* 0x00-0x09: none targets the temperature result registers 0x0A-0x0E or   *)
(* the fault status register 0x0F.  getThermocoupleType, readFault and     *)
(* readCJTemperature make no write transaction at all.                     *)
(***************************************************************************)
C23_WritesOnlyConfiguration ==
  /\ \A i \in 1..Len(log) :
       log[i].call = "write" => (log[i].tx[1] - 128) \in 0..9
  /\ op \in { "getThermocoupleType", "readFault", "readCJTemperature" } =>
       /\ Len(log) = 1
       /\ log[1].call = "write_then_read"

\* After a successful begin(), readCJTemperature has returned with one read
\* in its log and ONE_SHOT clear in the chip: no conversion was started.
C23_Witness ==
  /\ Returned("readCJTemperature")
  /\ begun
  /\ Len(log) = 1
  /\ IsReadOf(log[1], 10, 2)
  /\ ~HasBit(regs[MAX31856_CR0_REG], 64)

(***************************************************************************)
(* C24.  setThermocoupleType validates nothing: for every type value v,    *)
(* in or out of the enumeration, and every CR1 value c it reads, it writes *)
(* (c AND 0xF0) OR (v AND 0x0F) to CR1, so that the upper 4 bits of CR1    *)
(* are kept and only the low nibble depends on v.                          *)
(***************************************************************************)
C24_LowNibbleOnly ==
  Returned("setThermocoupleType") =>
    /\ Len(log) = 2
    /\ IsReadOf(log[1], 1, 1)
    /\ log[2].call = "write"
    /\ log[2].tx = << 129, 16 * (log[1].rx[1] \div 16) + (arg % 16) >>
    /\ regs[MAX31856_CR1_REG] \div 16 = log[1].rx[1] \div 16

\* setThermocoupleType(19), a value outside the enumeration, has read 0xA7
\* and written 0xA3.
C24_Witness ==
  /\ Returned("setThermocoupleType")
  /\ arg = 19
  /\ arg \notin ThermocoupleTypes
  /\ log[1].rx = << 167 >>
  /\ log[2].tx = << 129, 163 >>

(***************************************************************************)
(* C25.  Once a begin() has succeeded, whenever no public method is        *)
(* running the stored mode and the chip agree: the AUTOCONVERT bit of CR0  *)
(* is 1 exactly when the stored mode is CONTINUOUS.                        *)
(***************************************************************************)
C25_ModeAgrees ==
  (begun /\ pc = "idle") =>
    (HasBit(regs[MAX31856_CR0_REG], 128) <=> conversionMode = MAX31856_CONTINUOUS)

\* In continuous mode with the 50 Hz filter set, triggerOneShot has
\* returned and CR0 still holds 0x91.
C25_Witness ==
  /\ Returned("triggerOneShot")
  /\ begun
  /\ conversionMode = MAX31856_CONTINUOUS
  /\ regs[MAX31856_CR0_REG] = 145

(***************************************************************************)
(* C26.  As claimed: in a one-shot mode, when the chip has cleared         *)
(* ONE_SHOT between setNoiseFilter's read of CR0 and its write-back,       *)
(* ONE_SHOT is still clear in CR0 after the write-back.  Stated for a      *)
(* handle on which begin() has succeeded.                                  *)
(***************************************************************************)
C26_Step ==
  ( /\ op = "setNoiseFilter"
    /\ begun
    /\ conversionMode # MAX31856_CONTINUOUS
    /\ pc = "snf_write"
    /\ pc' = "idle"
    /\ HasBit(log[1].rx[1], MAX31856_CR0_1SHOT)
    /\ ~HasBit(regs[MAX31856_CR0_REG], MAX31856_CR0_1SHOT) )
  => ~HasBit(regs'[MAX31856_CR0_REG], MAX31856_CR0_1SHOT)

C26_FilterKeepsOneShotClear == [][C26_Step]_vars

(***************************************************************************)
(* C27.  The timeout test of the blocking read is right across the wrap of *)
(* the 32-bit millisecond counter: whatever millis() was at the start, a   *)
(* poll that reads ONE_SHOT set ends the call with NaN when more than      *)
(* 250 ms have elapsed, and goes on waiting when 250 ms or less have       *)
(* elapsed; the difference millis() - start is the elapsed time.           *)
(***************************************************************************)
C27_Step ==
  /\ (pc = "rtc_poll" /\ pc' = "idle") => elapsed > TimeoutMs
  /\ (pc = "rtc_poll" /\ pc' = "rtc_poll" /\ log' # log) => elapsed <= TimeoutMs
  /\ (pc = "rtc_poll" /\ pc' = "rtc_read") =>
       ~HasBit(regs[MAX31856_CR0_REG], MAX31856_CR0_1SHOT)
  /\ pc' = "rtc_poll" =>
       /\ U32Add(start', elapsed') = now'
       /\ elapsed' <= TimeoutMs + PollDelayMs

C27_WrapSafe == [][C27_Step]_vars

\* A blocking read called 130 ms before the counter wraps has given up
\* 260 ms later, with millis() at 130.
C27_Witness ==
  /\ Returned("readThermocoupleTemperature")
  /\ ret = NaN
  /\ start = U32(65535, 65406)
  /\ now = U32(0, 130)
  /\ elapsed = 260

====
